---- MODULE Spec2Model ----
(***************************************************************************)
(* Reviewer-assignment service: the PR ledger (pull_requests and           *)
(* pr_reviewers tables), the directory (users table) and the request       *)
(* handlers of PullRequestService, UserService and TeamService.  Every     *)
(* handler is cut at its store calls: one action per store call, so that   *)
(* concurrent requests interleave exactly where the Go code lets them.     *)
(* Create's transaction is cut at its statements; the transactions of      *)
(* UpdateReviewers and of the cascade take effect at their commit.         *)
(***************************************************************************)
EXTENDS Integers, FiniteSets, Sequences, TLC

(* ---------------------------- bounds ----------------------------------- *)

\* number of requests the clients issue in one behaviour
MaxRequests == 3

(* ------------------------- directory content --------------------------- *)

Users == {"u1", "u2", "u3", "u4", "v1"}

\* an id that resolves to no row of the users table
NoUser == "ghost"

UserIds == Users \cup {NoUser}

\* the author ids the clients send: a member of the larger team, the member
\* of the other team, and the unknown id
AuthorIds == {"u1", "v1", NoUser}

Teams == {"backend", "payments"}

\* a name that resolves to no row of the teams table
NoTeam == "nope"

TeamNames == Teams \cup {NoTeam}

\* users.team_name, fixed when the team is created
TeamOf == [u \in Users |-> IF u = "v1" THEN "payments" ELSE "backend"]

PRIds == {"pr1", "pr2"}

\* the pull_request_name values the clients send: every request carries a
\* title of its own, numbered in the order of arrival
PRNames == 1..MaxRequests

\* request slots: each request runs on its own goroutine
Procs == {"p1", "p2"}

VARIABLES
    users,          \* users.is_active, by user_id
    pull_requests,  \* pull_requests rows, by pull_request_id
    pr_reviewers,   \* pr_reviewers: the number of rows of each
                    \* <<pull_request_id, reviewer_id>> (the serial id left out)
    clock,          \* latest timestamp stored (time.Now / CURRENT_TIMESTAMP)
    nreq,           \* requests issued so far
    req             \* per goroutine: the request, its position and locals

vars == <<users, pull_requests, pr_reviewers, clock, nreq, req>>

(* ------------------------------ helpers -------------------------------- *)

Min(a, b) == IF a < b THEN a ELSE b

Max(a, b) == IF a < b THEN b ELSE a

\* all orderings of a finite set
Orderings(S) ==
    {s \in [1..Cardinality(S) -> S] : \A i, j \in 1..Cardinality(S) : s[i] = s[j] => i = j}

\* absent row of pull_requests
NoRow == [author |-> NoUser, name |-> 0, status |-> "ABSENT", createdAt |-> 0,
          mergedAt |-> 0]

\* models.PullRequest that no query returned (nil, sql.ErrNoRows)
NoPR == [author |-> NoUser, name |-> 0, status |-> "ABSENT", createdAt |-> 0,
         mergedAt |-> 0, reviewers |-> {}]

\* the request record of a goroutine that has not handled a request yet
Idle == [op |-> "none", pc |-> "idle", prID |-> "", name |-> 0, userID |-> "",
         teamName |-> "", userIDs |-> {}, pr |-> NoPR, reviewers |-> {},
         inserted |-> {}, newReviewer |-> "",
         createdAt |-> 0, authorPRs |-> {}, reviewerPRs |-> {}, activeMembers |-> {},
         err |-> "", ret |-> NoPR, count |-> 0, log |-> <<>>, fault |-> ""]

\* the lookups of the PR service that can fail in the store: the value is kept
\* in a request's fault field for the step in which the call failed
Lookups == {"prRepo.GetByID", "userRepo.GetByID"}

Free(p) == req[p].pc = "idle"

\* no response is waiting to be written
Quiet == \A q \in Procs : req[q].pc # "done"

\* goroutine p is about to run the step named label
At(p, label) == Quiet /\ req[p].pc = label

\* a request arrives and is served by goroutine p: the first free one
Arrives(p) ==
    /\ Quiet
    /\ Free(p)
    /\ p = "p1" \/ ~Free("p1")
    /\ nreq < MaxRequests

(* --------------------------- repositories ------------------------------ *)

\* the <<pull_request_id, reviewer_id>> pairs a pr_reviewers table has a row of
Rows(table) == {x \in PRIds \X Users : table[x] > 0}

\* INSERT INTO pr_reviewers (pull_request_id, reviewer_id) VALUES ($1, $2)
Insert(table, prID, reviewerID) == [table EXCEPT ![<<prID, reviewerID>>] = @ + 1]

\* pullRequestRepository.GetByID: the row joined with its reviewers
GetByID(prID) ==
    IF pull_requests[prID] = NoRow THEN NoPR
    ELSE [author    |-> pull_requests[prID].author,
          name      |-> pull_requests[prID].name,
          status    |-> pull_requests[prID].status,
          createdAt |-> pull_requests[prID].createdAt,
          mergedAt  |-> pull_requests[prID].mergedAt,
          reviewers |-> {u \in Users : <<prID, u>> \in Rows(pr_reviewers)}]

\* GetActiveTeamMembers whose query has no is_active condition
GetActiveTeamMembers_all(teamName, excludeUserID) ==
    {u \in Users : TeamOf[u] = teamName /\ u # excludeUserID}

\* userRepository.GetActiveTeamMembers(teamName, excludeUserID)
GetActiveTeamMembers(teamName, excludeUserID) ==
    {u \in Users : TeamOf[u] = teamName /\ users[u] /\ u # excludeUserID}

\* userRepository.GetUsersByIDs
GetUsersByIDs(userIDs) == userIDs \cap Users

\* GetOpenPRsByAuthors whose query has no status = 'OPEN' condition
GetOpenPRsByAuthors_anyStatus(userIDs) ==
    {id \in PRIds : pull_requests[id] # NoRow /\ pull_requests[id].author \in userIDs}

\* pullRequestRepository.GetOpenPRsByAuthors
GetOpenPRsByAuthors(userIDs) ==
    {id \in PRIds : pull_requests[id].status = "OPEN" /\ pull_requests[id].author \in userIDs}

\* pullRequestRepository.GetOpenPRsByReviewers: one entry per (reviewer, PR),
\* each with its own copy of the PR's reviewer list
GetOpenPRsByReviewers(userIDs) ==
    {<<u, id, GetByID(id).reviewers>> :
        <<u, id>> \in {x \in userIDs \X PRIds :
                          /\ pull_requests[x[2]].status = "OPEN"
                          /\ <<x[2], x[1]>> \in Rows(pr_reviewers)}}

TypeOK ==
    /\ users \in [Users -> BOOLEAN]
    /\ pr_reviewers \in [PRIds \X Users -> Nat]
    /\ clock \in Nat
    /\ nreq \in 0..MaxRequests
    /\ \A id \in PRIds : pull_requests[id].status \in {"ABSENT", "OPEN", "MERGED"}

Init ==
    /\ users = [u \in Users |-> TRUE]
    /\ pull_requests = [id \in PRIds |-> NoRow]
    /\ pr_reviewers = [x \in PRIds \X Users |-> 0]
    /\ clock = 0
    /\ nreq = 0
    /\ req = [p \in Procs |-> Idle]

(* --------------------- PullRequestService.CreatePR --------------------- *)

\* selectRandomReviewers without the cap of lines 180-183
selectRandomReviewers_uncapped(candidates, maxCount) == {candidates}

\* selectRandomReviewers: the lists rand.Shuffle can leave in the first
\* min(maxCount, len(candidates)) places, as sets of ids
selectRandomReviewers(candidates, maxCount) ==
    {S \in SUBSET candidates : Cardinality(S) = Min(maxCount, Cardinality(candidates))}

\* tx.Exec / stmt.Exec on Create's open transaction: what the other
\* connections read of a table (committed) once the transaction has written
\* to it (written) and has not committed
txExec_autocommit(committed, written) == written

txExec(committed, written) == committed

\* the pull_requests row Create inserts for the request of goroutine p
NewRow(p) ==
    [author |-> req[p].userID, name |-> req[p].name, status |-> "OPEN",
     createdAt |-> req[p].createdAt, mergedAt |-> 0]

\* another open transaction has inserted the same pull_request_id: the INSERT
\* waits for that transaction to end
InsertWaits(p) ==
    \E q \in Procs \ {p} :
        /\ req[q].op = "CreatePR"
        /\ req[q].pc \in {"CreatePR_reviewers", "CreatePR_commit"}
        /\ req[q].prID = req[p].prID

\* an error return of Create: the deferred Rollback ends the transaction
CreateFails(p) ==
    req' = [req EXCEPT ![p].pc = "done", ![p].err = "StorageError"]

\* line 31 as a test that lets the id of a merged PR be taken again
PRExists_openOnly(existing) == existing # NoPR /\ existing.status = "OPEN"

\* CreatePR, line 31: if existing != nil
PRExists(existing) == existing # NoPR

\* userRepository.GetByID: the error it returns
UserLookup(userID) == IF userID \in Users THEN "" ELSE "sql.ErrNoRows"

\* line 37 with the error dropped, as line 30 drops the error of prRepo.GetByID
AuthorNotFound_ignored(err) == FALSE

\* CreatePR, line 37: if err != nil
AuthorNotFound(err) == err # ""

\* CreatePR, lines 30-40: the request arrives; existence of the PR and of the author
CreatePR(p, prID, name, authorID) ==
    /\ Arrives(p)
    /\ nreq' = nreq + 1
    /\ LET r == [Idle EXCEPT !.op = "CreatePR", !.prID = prID, !.name = name,
                             !.userID = authorID]
       IN  req' = [req EXCEPT ![p] =
                IF PRExists(GetByID(prID))
                THEN [r EXCEPT !.pc = "done", !.err = "ErrPRExists"]
                ELSE IF AuthorNotFound(UserLookup(authorID))
                THEN [r EXCEPT !.pc = "done", !.err = "ErrAuthorNotFound"]
                ELSE [r EXCEPT !.pc = "CreatePR_select"]]
    /\ UNCHANGED <<users, pull_requests, pr_reviewers, clock>>

\* CreatePR, lines 30-40, when the store fails in one of the two lookups (the
\* connection is lost, the query is cancelled): the error of prRepo.GetByID is
\* dropped and existing is nil; any error of userRepo.GetByID is answered
\* with ErrAuthorNotFound
CreatePR_lookupFails(p, prID, name, authorID, failed) ==
    /\ Arrives(p)
    /\ nreq' = nreq + 1
    /\ failed = "userRepo.GetByID" => ~PRExists(GetByID(prID))
    /\ LET r == [Idle EXCEPT !.op = "CreatePR", !.prID = prID, !.name = name,
                             !.userID = authorID, !.fault = failed]
           existing == IF failed = "prRepo.GetByID" THEN NoPR ELSE GetByID(prID)
           err == IF failed = "userRepo.GetByID" THEN "StorageError"
                  ELSE UserLookup(authorID)
       IN  req' = [req EXCEPT ![p] =
                IF PRExists(existing)
                THEN [r EXCEPT !.pc = "done", !.err = "ErrPRExists"]
                ELSE IF AuthorNotFound(err)
                THEN [r EXCEPT !.pc = "done", !.err = "ErrAuthorNotFound"]
                ELSE [r EXCEPT !.pc = "CreatePR_select"]]
    /\ UNCHANGED <<users, pull_requests, pr_reviewers, clock>>

\* CreatePR, lines 42-59: the candidates, the selection and the time stamp
CreatePR_select(p) ==
    /\ At(p, "CreatePR_select")
    /\ LET candidates == GetActiveTeamMembers(TeamOf[req[p].userID], req[p].userID)
       IN  \E reviewers \in selectRandomReviewers(candidates, 2) :
               req' = [req EXCEPT ![p].pc = "CreatePR_create",
                                  ![p].reviewers = reviewers,
                                  ![p].createdAt = clock + 1,
                                  ![p].fault = ""]
    /\ UNCHANGED <<users, pull_requests, pr_reviewers, clock, nreq>>

\* Create, lines 31-46: Begin and the INSERT into pull_requests; a committed
\* row with this id violates the primary key
CreatePR_create(p) ==
    /\ At(p, "CreatePR_create")
    /\ ~InsertWaits(p)
    /\ \/ /\ CreateFails(p)
          /\ UNCHANGED pull_requests
       \/ /\ pull_requests[req[p].prID] = NoRow
          /\ pull_requests' = txExec(pull_requests,
                                     [pull_requests EXCEPT ![req[p].prID] = NewRow(p)])
          /\ req' = [req EXCEPT ![p].pc = IF req[p].reviewers = {}
                                          THEN "CreatePR_commit"
                                          ELSE "CreatePR_reviewers"]
    /\ UNCHANGED <<users, pr_reviewers, clock, nreq>>

\* Create, lines 48-61: one INSERT into pr_reviewers per selected reviewer
CreatePR_reviewers(p) ==
    /\ At(p, "CreatePR_reviewers")
    /\ \/ /\ CreateFails(p)
          /\ UNCHANGED pr_reviewers
       \/ \E reviewerID \in req[p].reviewers \ req[p].inserted :
             /\ pr_reviewers' = txExec(pr_reviewers,
                                       Insert(pr_reviewers, req[p].prID, reviewerID))
             /\ req' = [req EXCEPT
                    ![p].inserted = @ \cup {reviewerID},
                    ![p].pc = IF req[p].inserted \cup {reviewerID} = req[p].reviewers
                              THEN "CreatePR_commit" ELSE "CreatePR_reviewers"]
    /\ UNCHANGED <<users, pull_requests, clock, nreq>>

\* Create, line 63, and CreatePR, lines 61-67: Commit and the response
CreatePR_commit(p) ==
    /\ At(p, "CreatePR_commit")
    /\ \/ /\ CreateFails(p)
          /\ UNCHANGED <<pull_requests, pr_reviewers, clock>>
       \/ /\ pull_requests' = [pull_requests EXCEPT ![req[p].prID] = NewRow(p)]
          /\ clock' = Max(clock, req[p].createdAt)
          /\ pr_reviewers' = [x \in PRIds \X Users |->
                                  IF x[1] = req[p].prID /\ x[2] \in req[p].inserted
                                  THEN Insert(pr_reviewers, x[1], x[2])[x]
                                  ELSE pr_reviewers[x]]
          /\ req' = [req EXCEPT
                 ![p].pc = "done",
                 ![p].ret = [author |-> req[p].userID, name |-> req[p].name,
                             status |-> "OPEN", createdAt |-> req[p].createdAt,
                             mergedAt |-> 0, reviewers |-> req[p].reviewers]]
    /\ UNCHANGED <<users, nreq>>

(* --------------------- PullRequestService.MergePR ---------------------- *)

\* MergePR without the early return of lines 79-82
AlreadyMerged_skipped(pr) == FALSE

\* MergePR, line 79: the idempotence test on the PR just read
AlreadyMerged(pr) == pr.status = "MERGED"

\* lines 74-77 with the error of GetByID dropped
MergeNotFound_ignored(pr) == FALSE

\* MergePR, line 74: if err != nil { return nil, ErrPRNotFound }
MergeNotFound(pr) == pr = NoPR

\* UpdateStatus that always runs the UPDATE of its else branch, line 111
UpdateStatus_noStamp(prID, status) ==
    /\ pull_requests' = [pull_requests EXCEPT ![prID] =
            IF pull_requests[prID] = NoRow THEN NoRow
            ELSE [pull_requests[prID] EXCEPT !.status = status]]
    /\ clock' = clock

\* pullRequestRepository.UpdateStatus(prID, "MERGED"): one UPDATE statement
UpdateStatus(prID, status) ==
    /\ pull_requests' = [pull_requests EXCEPT ![prID] =
            IF pull_requests[prID] = NoRow THEN NoRow
            ELSE [pull_requests[prID] EXCEPT
                    !.status = status,
                    !.mergedAt = IF status = "MERGED" THEN clock + 1 ELSE @]]
    /\ clock' = clock + 1

\* MergePR, lines 73-82: the request arrives; the PR is read
MergePR(p, prID) ==
    /\ Arrives(p)
    /\ nreq' = nreq + 1
    /\ LET r  == [Idle EXCEPT !.op = "MergePR", !.prID = prID]
           pr == GetByID(prID)
       IN  req' = [req EXCEPT ![p] =
                IF MergeNotFound(pr)
                THEN [r EXCEPT !.pc = "done", !.err = "ErrPRNotFound"]
                ELSE IF AlreadyMerged(pr)
                THEN [r EXCEPT !.pc = "done", !.pr = pr, !.ret = pr]
                ELSE [r EXCEPT !.pc = "MergePR_update", !.pr = pr]]
    /\ UNCHANGED <<users, pull_requests, pr_reviewers, clock>>

\* MergePR, lines 73-77, when the store fails in prRepo.GetByID: any error of
\* the lookup is answered with ErrPRNotFound
MergePR_lookupFails(p, prID) ==
    /\ Arrives(p)
    /\ nreq' = nreq + 1
    /\ LET r  == [Idle EXCEPT !.op = "MergePR", !.prID = prID, !.fault = "prRepo.GetByID"]
           pr == NoPR
       IN  req' = [req EXCEPT ![p] =
                IF MergeNotFound(pr)
                THEN [r EXCEPT !.pc = "done", !.err = "ErrPRNotFound"]
                ELSE [r EXCEPT !.pc = "done", !.err = "StorageError"]]
    /\ UNCHANGED <<users, pull_requests, pr_reviewers, clock>>

\* MergePR, lines 84-87
MergePR_update(p) ==
    /\ At(p, "MergePR_update")
    /\ UpdateStatus(req[p].prID, "MERGED")
    /\ req' = [req EXCEPT ![p].pc = "MergePR_return"]
    /\ UNCHANGED <<users, pr_reviewers, nreq>>

\* MergePR, line 90: the PR is read again for the response
MergePR_return(p) ==
    /\ At(p, "MergePR_return")
    /\ req' = [req EXCEPT ![p].pc = "done", ![p].ret = GetByID(req[p].prID)]
    /\ UNCHANGED <<users, pull_requests, pr_reviewers, clock, nreq>>

(* ----------------- PullRequestService.ReassignReviewer ----------------- *)

\* ReassignReviewer without the status test of lines 102-105
ReassignRefused_skipped(pr) == FALSE

\* ReassignReviewer, line 102: reviewers are frozen once the PR is merged
ReassignRefused(pr) == pr.status = "MERGED"

\* lines 131-143 with the isAlreadyAssigned test dropped
filteredCandidates_unfiltered(candidates, assigned) == candidates

\* ReassignReviewer, lines 131-143: candidates that are not assigned yet
filteredCandidates(candidates, assigned) == candidates \ assigned

\* line 145 as len(filteredCandidates) <= 1
NoCandidate_offByOne(filtered) == Cardinality(filtered) <= 1

\* ReassignReviewer, line 145: nobody is left to take the review
NoCandidate(filtered) == filtered = {}

\* lines 150-158 with the old reviewer kept in the list
newReviewers_oldKept(assigned, oldUserID, newReviewer) == assigned \cup {newReviewer}

\* ReassignReviewer, lines 150-158: the list handed to UpdateReviewers
newReviewers(assigned, oldUserID, newReviewer) ==
    (assigned \ {oldUserID}) \cup {newReviewer}

\* UpdateReviewers with a DELETE that has lost its WHERE clause
UpdateReviewers_allRows(prID, reviewers) ==
    pr_reviewers' = [x \in PRIds \X Users |->
                        IF x[1] = prID /\ x[2] \in reviewers THEN 1 ELSE 0]

\* pullRequestRepository.UpdateReviewers: DELETE of the PR's rows and INSERT
\* of the new list, committed together
UpdateReviewers(prID, reviewers) ==
    pr_reviewers' = [x \in PRIds \X Users |->
                        IF x[1] # prID THEN pr_reviewers[x]
                        ELSE IF x[2] \in reviewers THEN 1 ELSE 0]

\* lines 107-117 run after the lookup of the old reviewer's user row
NotAssigned_afterUser(pr, oldUserID) ==
    oldUserID \in Users /\ oldUserID \notin pr.reviewers

\* ReassignReviewer, lines 107-117: oldUserID is not in pr.AssignedReviewers
NotAssigned(pr, oldUserID) == oldUserID \notin pr.reviewers

\* ReassignReviewer, lines 96-123: the request arrives; PR, status,
\* assignment and the old reviewer's user row
ReassignReviewer(p, prID, oldUserID) ==
    /\ Arrives(p)
    /\ nreq' = nreq + 1
    /\ LET r  == [Idle EXCEPT !.op = "ReassignReviewer", !.prID = prID, !.userID = oldUserID]
           pr == GetByID(prID)
       IN  req' = [req EXCEPT ![p] =
                IF pr = NoPR
                THEN [r EXCEPT !.pc = "done", !.err = "ErrPRNotFound"]
                ELSE IF ReassignRefused(pr)
                THEN [r EXCEPT !.pc = "done", !.pr = pr, !.err = "ErrPRMerged"]
                ELSE IF NotAssigned(pr, oldUserID)
                THEN [r EXCEPT !.pc = "done", !.pr = pr, !.err = "ErrNotAssigned"]
                ELSE IF oldUserID \notin Users
                THEN [r EXCEPT !.pc = "done", !.pr = pr, !.err = "ErrUserNotFound"]
                ELSE [r EXCEPT !.pc = "ReassignReviewer_select", !.pr = pr]]
    /\ UNCHANGED <<users, pull_requests, pr_reviewers, clock>>

\* ReassignReviewer, lines 96-123, when the store fails in one of the two
\* lookups: any error of prRepo.GetByID is answered with ErrPRNotFound, any
\* error of userRepo.GetByID with ErrUserNotFound
ReassignReviewer_lookupFails(p, prID, oldUserID, failed) ==
    /\ Arrives(p)
    /\ nreq' = nreq + 1
    /\ failed = "userRepo.GetByID" =>
           /\ GetByID(prID) # NoPR
           /\ ~ReassignRefused(GetByID(prID))
           /\ oldUserID \in GetByID(prID).reviewers
    /\ LET r  == [Idle EXCEPT !.op = "ReassignReviewer", !.prID = prID,
                              !.userID = oldUserID, !.fault = failed]
           pr == IF failed = "prRepo.GetByID" THEN NoPR ELSE GetByID(prID)
       IN  req' = [req EXCEPT ![p] =
                IF pr = NoPR
                THEN [r EXCEPT !.pc = "done", !.err = "ErrPRNotFound"]
                ELSE [r EXCEPT !.pc = "done", !.pr = pr, !.err = "ErrUserNotFound"]]
    /\ UNCHANGED <<users, pull_requests, pr_reviewers, clock>>

\* ReassignReviewer, lines 125-158: the candidates and the random pick
ReassignReviewer_select(p) ==
    /\ At(p, "ReassignReviewer_select")
    /\ LET candidates == GetActiveTeamMembers(TeamOf[req[p].userID], req[p].userID)
           filtered   == filteredCandidates(candidates, req[p].pr.reviewers)
       IN  IF NoCandidate(filtered)
           THEN req' = [req EXCEPT ![p].pc = "done", ![p].err = "ErrNoCandidate"]
           ELSE \E newReviewer \in filtered :
                   req' = [req EXCEPT
                       ![p].pc = "ReassignReviewer_update",
                       ![p].newReviewer = newReviewer,
                       ![p].reviewers =
                           newReviewers(req[p].pr.reviewers, req[p].userID, newReviewer)]
    /\ UNCHANGED <<users, pull_requests, pr_reviewers, clock, nreq>>

\* ReassignReviewer, lines 160-163
ReassignReviewer_update(p) ==
    /\ At(p, "ReassignReviewer_update")
    /\ UpdateReviewers(req[p].prID, req[p].reviewers)
    /\ req' = [req EXCEPT ![p].pc = "ReassignReviewer_return"]
    /\ UNCHANGED <<users, pull_requests, clock, nreq>>

\* ReassignReviewer, lines 165-172: the PR is read again for the response
ReassignReviewer_return(p) ==
    /\ At(p, "ReassignReviewer_return")
    /\ req' = [req EXCEPT ![p].pc = "done", ![p].ret = GetByID(req[p].prID)]
    /\ UNCHANGED <<users, pull_requests, pr_reviewers, clock, nreq>>

(* ---------------------- UserService.SetUserActive ---------------------- *)

\* userRepository.UpdateActivity
UpdateActivity(userID, isActive) ==
    users' = [users EXCEPT ![userID] = isActive]

\* SetUserActive: the user is looked up, then its flag is written
SetUserActive(p, userID, isActive) ==
    /\ Arrives(p)
    /\ nreq' = nreq + 1
    /\ LET r == [Idle EXCEPT !.op = "SetUserActive", !.userID = userID]
       IN  IF userID \notin Users
           THEN /\ req' = [req EXCEPT ![p] = [r EXCEPT !.pc = "done", !.err = "ErrUserNotFound"]]
                /\ UNCHANGED users
           ELSE /\ UpdateActivity(userID, isActive)
                /\ req' = [req EXCEPT ![p] = [r EXCEPT !.pc = "done"]]
    /\ UNCHANGED <<pull_requests, pr_reviewers, clock>>

(* ------------------ TeamService.DeactivateTeamMembers ------------------ *)

\* pullRequestRepository.ReassignAuthor, inside the cascade's transaction
ReassignAuthor(table, prID, newAuthorID) ==
    [table EXCEPT ![prID] = IF @ = NoRow THEN @ ELSE [@ EXCEPT !.author = newAuthorID]]

\* RemoveReviewer whose DELETE matches no row
RemoveReviewer_noRow(table, prID, reviewerID) == table

\* pullRequestRepository.RemoveReviewer, inside the cascade's transaction
RemoveReviewer(table, prID, reviewerID) == [table EXCEPT ![<<prID, reviewerID>>] = 0]

\* AddReviewer as a plain INSERT into a table without UNIQUE(pull_request_id,
\* reviewer_id)
AddReviewer_plainInsert(table, prID, reviewerID) == Insert(table, prID, reviewerID)

\* pullRequestRepository.AddReviewer: INSERT ... ON CONFLICT DO NOTHING, the
\* conflict being UNIQUE(pull_request_id, reviewer_id)
AddReviewer(table, prID, reviewerID) ==
    IF table[<<prID, reviewerID>>] > 0 THEN table ELSE Insert(table, prID, reviewerID)

\* DeactivateUsers whose UPDATE selects by the users' team
DeactivateUsers_team(table, userIDs) ==
    [u \in Users |-> IF TeamOf[u] \in {TeamOf[x] : x \in userIDs} THEN FALSE ELSE table[u]]

\* userRepository.DeactivateUsers, inside the cascade's transaction
DeactivateUsers(table, userIDs) ==
    [u \in Users |-> IF u \in userIDs THEN FALSE ELSE table[u]]

\* a pick that does not move with reassignedCount
NextActive_first(activeList, reassignedCount) == activeList[1]

\* lines 194 and 217: the round-robin pick, activeList[reassignedCount % len]
NextActive(activeList, reassignedCount) ==
    activeList[(reassignedCount % Len(activeList)) + 1]

\* one reassignment the cascade performs, as the transaction sees the PR when
\* it performs it: the PR, the id taken from activeList, the PR's author and
\* reviewer rows at that moment
Reassignment(kind, prID, newID, st) ==
    [kind |-> kind, prID |-> prID, user |-> newID,
     author |-> st.pull_requests[prID].author,
     assigned |-> {u \in Users : <<prID, u>> \in Rows(st.pr_reviewers)}]

\* lines 192-200: authorship of every open PR of a deactivated author
RECURSIVE AuthorLoop(_, _, _)
AuthorLoop(authorPRs, activeList, st) ==
    IF authorPRs = <<>> THEN st
    ELSE IF Len(activeList) > 0
    THEN AuthorLoop(Tail(authorPRs), activeList,
            [st EXCEPT !.pull_requests =
                          ReassignAuthor(@, Head(authorPRs), NextActive(activeList, st.count)),
                       !.count = @ + 1,
                       !.log = Append(@, Reassignment("author", Head(authorPRs),
                                                      NextActive(activeList, st.count), st))])
    ELSE AuthorLoop(Tail(authorPRs), activeList, st)

\* line 216: a replacement is looked for
WantsReplacement(assigned, activeList) ==
    Cardinality(assigned) < 2 /\ Len(activeList) > 0

\* lines 218-225: the pick is refused when it already reviews the PR
alreadyReviewer(assigned, newReviewer) == newReviewer \in assigned

\* lines 202-234: every (deactivated reviewer, open PR) entry; an entry is
\* <<reviewerID, prID, AssignedReviewers as read>>
RECURSIVE ReviewerLoop(_, _, _)
ReviewerLoop(reviewerPRs, activeList, st) ==
    IF reviewerPRs = <<>> THEN st
    ELSE LET reviewerID == Head(reviewerPRs)[1]
             prID       == Head(reviewerPRs)[2]
             updated    == Head(reviewerPRs)[3] \ {reviewerID}
             removed    == [st EXCEPT !.pr_reviewers = RemoveReviewer(@, prID, reviewerID)]
         IN  IF /\ WantsReplacement(updated, activeList)
                /\ ~alreadyReviewer(updated, NextActive(activeList, st.count))
             THEN ReviewerLoop(Tail(reviewerPRs), activeList,
                     [removed EXCEPT !.pr_reviewers =
                                        AddReviewer(@, prID, NextActive(activeList, st.count)),
                                     !.count = @ + 1,
                                     !.log = Append(@, Reassignment("reviewer", prID,
                                                NextActive(activeList, st.count), removed))])
             ELSE ReviewerLoop(Tail(reviewerPRs), activeList, removed)

\* the orders in which `for reviewerID, prs := range reviewerPRs` can visit the
\* entries: the map's keys in any order, each key's PRs together
ReviewerOrders(reviewerPRs) ==
    {s \in Orderings(reviewerPRs) :
        \A i, j, k \in 1..Cardinality(reviewerPRs) :
            (i < j /\ j < k /\ s[i][1] = s[k][1]) => s[j][1] = s[i][1]}

\* line 126 without the early return for an empty list
EmptyList_missed(userIDs) == FALSE

\* DeactivateTeamMembers, line 126: if len(userIDs) == 0
EmptyList(userIDs) == userIDs = {}

\* lines 150-154 with the comparison of the team names left out
InvalidTeamMember_skipped(userIDs, teamName) == FALSE

\* DeactivateTeamMembers, lines 150-154: a listed user is of another team
InvalidTeamMember(userIDs, teamName) == \E u \in userIDs : TeamOf[u] # teamName

\* lines 126-165: the request arrives; the empty list, the team, the users,
\* then the open PRs the listed users author
DeactivateTeamMembers(p, teamName, userIDs) ==
    /\ Arrives(p)
    /\ nreq' = nreq + 1
    /\ LET r == [Idle EXCEPT !.op = "DeactivateTeamMembers", !.teamName = teamName,
                             !.userIDs = userIDs]
       IN  req' = [req EXCEPT ![p] =
                IF EmptyList(userIDs)
                THEN [r EXCEPT !.pc = "done"]
                ELSE IF teamName \notin Teams
                THEN [r EXCEPT !.pc = "done", !.err = "ErrTeamNotFound"]
                ELSE IF Cardinality(GetUsersByIDs(userIDs)) # Cardinality(userIDs)
                THEN [r EXCEPT !.pc = "done", !.err = "ErrUserNotFound"]
                ELSE IF InvalidTeamMember(userIDs, teamName)
                THEN [r EXCEPT !.pc = "done", !.err = "ErrInvalidTeamMember"]
                ELSE [r EXCEPT !.pc = "Deactivate_reviewers",
                               !.authorPRs = GetOpenPRsByAuthors(userIDs)]]
    /\ UNCHANGED <<users, pull_requests, pr_reviewers, clock>>

\* lines 167-170
Deactivate_reviewers(p) ==
    /\ At(p, "Deactivate_reviewers")
    /\ req' = [req EXCEPT ![p].pc = "Deactivate_active",
                          ![p].reviewerPRs = GetOpenPRsByReviewers(req[p].userIDs)]
    /\ UNCHANGED <<users, pull_requests, pr_reviewers, clock, nreq>>

\* lines 177-183 without the delete(activeMap, uid) of the listed ids
remainingActive_all(activeMembers, userIDs) == activeMembers

\* lines 177-183: activeMap, the active members less the listed ids
remainingActive(activeMembers, userIDs) == activeMembers \ userIDs

\* lines 172-183: the active members of the team, less the listed ids
Deactivate_active(p) ==
    /\ At(p, "Deactivate_active")
    /\ req' = [req EXCEPT ![p].pc = "Deactivate_commit",
                          ![p].activeMembers =
                              remainingActive(GetActiveTeamMembers(req[p].teamName, ""),
                                              req[p].userIDs)]
    /\ UNCHANGED <<users, pull_requests, pr_reviewers, clock, nreq>>

\* lines 185-249: activeList out of the map, both loops, DeactivateUsers, Commit
Deactivate_commit(p) ==
    /\ At(p, "Deactivate_commit")
    /\ \E activeList \in Orderings(req[p].activeMembers),
          authorPRs \in Orderings(req[p].authorPRs),
          reviewerPRs \in ReviewerOrders(req[p].reviewerPRs) :
            LET st0 == [pull_requests |-> pull_requests, pr_reviewers |-> pr_reviewers,
                        count |-> 0, log |-> <<>>]
                st1 == AuthorLoop(authorPRs, activeList, st0)
                st2 == ReviewerLoop(reviewerPRs, activeList, st1)
            IN  /\ pull_requests' = st2.pull_requests
                /\ pr_reviewers' = st2.pr_reviewers
                /\ users' = DeactivateUsers(users, req[p].userIDs)
                /\ req' = [req EXCEPT ![p].pc = "done", ![p].count = st2.count,
                                      ![p].log = st2.log]
    /\ UNCHANGED <<clock, nreq>>

\* an error return that leaves what the statements run so far have written
Rollback_kept(before, partial) == partial

\* line 160, defer tx.Rollback(): an error return discards what the
\* transaction has written
Rollback(before, partial) == before

\* an error return of the cascade after BeginTx: a read fails, or one of the
\* statements of lines 192-238 after the ones before it have run, or Commit,
\* or the caller's context is cancelled
Deactivate_fail(p) ==
    /\ Quiet
    /\ req[p].pc \in {"Deactivate_reviewers", "Deactivate_active", "Deactivate_commit"}
    /\ \E activeList \in Orderings(req[p].activeMembers),
          authorPRs \in Orderings(req[p].authorPRs),
          reviewerPRs \in ReviewerOrders(req[p].reviewerPRs) :
         \E k \in 0..Len(authorPRs), j \in 0..Len(reviewerPRs), deactivated \in BOOLEAN :
            /\ req[p].pc # "Deactivate_commit" => (k = 0 /\ j = 0 /\ ~deactivated)
            /\ j > 0 => k = Len(authorPRs)
            /\ deactivated => (k = Len(authorPRs) /\ j = Len(reviewerPRs))
            /\ LET st0 == [pull_requests |-> pull_requests, pr_reviewers |-> pr_reviewers,
                           count |-> 0, log |-> <<>>]
                   st1 == AuthorLoop(SubSeq(authorPRs, 1, k), activeList, st0)
                   st2 == ReviewerLoop(SubSeq(reviewerPRs, 1, j), activeList, st1)
                   before  == [pull_requests |-> pull_requests,
                               pr_reviewers |-> pr_reviewers, users |-> users]
                   partial == [pull_requests |-> st2.pull_requests,
                               pr_reviewers |-> st2.pr_reviewers,
                               users |-> IF deactivated
                                         THEN DeactivateUsers(users, req[p].userIDs)
                                         ELSE users]
                   after   == Rollback(before, partial)
               IN  /\ pull_requests' = after.pull_requests
                   /\ pr_reviewers' = after.pr_reviewers
                   /\ users' = after.users
    /\ req' = [req EXCEPT ![p].pc = "done", ![p].err = "StorageError"]
    /\ UNCHANGED <<clock, nreq>>

(* --------------------------- specifications ---------------------------- *)

\* the user_ids lists a client sends
Batches == {{}, {"u1"}, {"u2"}, {"u1", "u2"}, {"u3", "u4"}, {"v1"}, {"u1", "ghost"}}

\* the handler writes its response and the goroutine ends; a response is
\* written as soon as it is ready
Respond(p) ==
    /\ req[p].pc = "done"
    /\ req' = [req EXCEPT ![p] = Idle]
    /\ UNCHANGED <<users, pull_requests, pr_reviewers, clock, nreq>>

Step(p) ==
    \/ \E prID \in PRIds, name \in {n \in PRNames : n = nreq + 1}, authorID \in AuthorIds :
          CreatePR(p, prID, name, authorID)
    \/ \E prID \in PRIds, name \in {n \in PRNames : n = nreq + 1}, authorID \in AuthorIds,
          failed \in Lookups :
          CreatePR_lookupFails(p, prID, name, authorID, failed)
    \/ CreatePR_select(p)
    \/ CreatePR_create(p)
    \/ CreatePR_reviewers(p)
    \/ CreatePR_commit(p)
    \/ \E prID \in PRIds : MergePR(p, prID)
    \/ \E prID \in PRIds : MergePR_lookupFails(p, prID)
    \/ MergePR_update(p)
    \/ MergePR_return(p)
    \/ \E prID \in PRIds, oldUserID \in UserIds : ReassignReviewer(p, prID, oldUserID)
    \/ \E prID \in PRIds, oldUserID \in UserIds, failed \in Lookups :
          ReassignReviewer_lookupFails(p, prID, oldUserID, failed)
    \/ ReassignReviewer_select(p)
    \/ ReassignReviewer_update(p)
    \/ ReassignReviewer_return(p)
    \/ \E userID \in UserIds, isActive \in BOOLEAN : SetUserActive(p, userID, isActive)
    \/ \E teamName \in TeamNames, userIDs \in Batches :
          DeactivateTeamMembers(p, teamName, userIDs)
    \/ Deactivate_reviewers(p)
    \/ Deactivate_active(p)
    \/ Deactivate_commit(p)
    \/ Deactivate_fail(p)
    \/ Respond(p)

\* concurrent clients: any goroutine takes its next step
Next == \E p \in Procs : Step(p)

Spec == Init /\ [][Next]_vars

\* one client that waits for each response before its next request
SeqNext == Step("p1")

SeqSpec == Init /\ [][SeqNext]_vars

\* concurrent clients that create PRs and deactivate team members only: the
\* cascade is then the only writer of users.is_active
CascadeStep(p) ==
    \/ \E prID \in PRIds, name \in {n \in PRNames : n = nreq + 1}, authorID \in AuthorIds :
          CreatePR(p, prID, name, authorID)
    \/ CreatePR_select(p)
    \/ CreatePR_create(p)
    \/ CreatePR_reviewers(p)
    \/ CreatePR_commit(p)
    \/ \E teamName \in TeamNames, userIDs \in Batches :
          DeactivateTeamMembers(p, teamName, userIDs)
    \/ Deactivate_reviewers(p)
    \/ Deactivate_active(p)
    \/ Deactivate_commit(p)
    \/ Deactivate_fail(p)
    \/ Respond(p)

CascadeNext == \E p \in Procs : CascadeStep(p)

CascadeSpec == Init /\ [][CascadeNext]_vars

(* ------------------------------- claims -------------------------------- *)

\* the reviewer set stored for a PR
ReviewersOf(prID) == {u \in Users : <<prID, u>> \in Rows(pr_reviewers)}

\* goroutine p has a response of operation op ready
Responding(p, op) == req[p].op = op /\ req[p].pc = "done"

\* the active users of a user's team, the user left out
Teammates(userID) ==
    {u \in Users : TeamOf[u] = TeamOf[userID] /\ users[u] /\ u # userID}

\* C1: in every reachable state no pull request's author is a member of that
\* pull request's reviewer set.
C1_AuthorNeverReviewer ==
    \A prID \in PRIds :
        pull_requests[prID] # NoRow => pull_requests[prID].author \notin ReviewersOf(prID)

\* C2: a successful CreatePR returns and has stored a PR that is OPEN, has no
\* mergedAt, and whose reviewers are exactly min(2, n) of the n active users of
\* the author's team other than the author.
C2_CreateSelectsReviewers ==
    \A p \in Procs :
        (Responding(p, "CreatePR") /\ req[p].err = "") =>
            /\ req[p].ret.status = "OPEN"
            /\ req[p].ret.mergedAt = 0
            /\ req[p].ret.author = req[p].userID
            /\ req[p].ret.reviewers \subseteq Teammates(req[p].userID)
            /\ Cardinality(req[p].ret.reviewers)
                 = Min(2, Cardinality(Teammates(req[p].userID)))
            /\ GetByID(req[p].prID) = req[p].ret

\* C2 happens: an inactive author with three active teammates gets two reviewers
C2_Witness ==
    \E p \in Procs :
        /\ Responding(p, "CreatePR") /\ req[p].err = ""
        /\ ~users[req[p].userID]
        /\ Cardinality(Teammates(req[p].userID)) = 3
        /\ Cardinality(req[p].ret.reviewers) = 2

\* C3: a MergePR of a PR that is already MERGED answers at once with success,
\* with the stored status and mergedAt, and leaves every table as it was.
C3_MergeIdempotent ==
    [][\A p \in Procs, prID \in PRIds :
          (MergePR(p, prID) /\ pull_requests[prID].status = "MERGED") =>
              /\ req'[p].pc = "done"
              /\ req'[p].err = ""
              /\ req'[p].ret.status = "MERGED"
              /\ req'[p].ret.mergedAt = pull_requests[prID].mergedAt
              /\ req'[p].ret.mergedAt # 0
              /\ UNCHANGED <<users, pull_requests, pr_reviewers, clock>>]_vars

\* C3 happens: a merge of a merged PR has answered
C3_Witness ==
    \E p \in Procs :
        /\ Responding(p, "MergePR") /\ req[p].err = ""
        /\ req[p].pr.status = "MERGED"
        /\ req[p].ret.mergedAt = pull_requests[req[p].prID].mergedAt

\* C4: with concurrent MergePR calls on one PR, mergedAt is written once and
\* never changes after the first merge has committed.
C4_MergedAtWrittenOnce ==
    [][\A prID \in PRIds :
          pull_requests[prID].mergedAt # 0 =>
              pull_requests'[prID].mergedAt = pull_requests[prID].mergedAt]_vars

\* C5: under every interleaving, once a PR is MERGED its author and its
\* reviewer set never change again.
C5_FrozenOnceMerged ==
    [][\A prID \in PRIds :
          pull_requests[prID].status = "MERGED" =>
              /\ pull_requests'[prID].author = pull_requests[prID].author
              /\ ReviewersOf(prID)' = ReviewersOf(prID)]_vars

\* C6: a ReassignReviewer on a MERGED PR fails with PRMerged whatever the old
\* reviewer id is, and leaves status, author, reviewers and mergedAt as they were.
C6_ReassignOnMergedRefused ==
    [][\A p \in Procs, prID \in PRIds, oldUserID \in UserIds :
          (ReassignReviewer(p, prID, oldUserID) /\ pull_requests[prID].status = "MERGED") =>
              /\ req'[p].pc = "done"
              /\ req'[p].err = "ErrPRMerged"
              /\ UNCHANGED <<users, pull_requests, pr_reviewers>>]_vars

\* C6 happens: refused although the old id is a reviewer of the merged PR
C6_Witness ==
    \E p \in Procs :
        /\ Responding(p, "ReassignReviewer") /\ req[p].err = "ErrPRMerged"
        /\ pull_requests[req[p].prID].status = "MERGED"
        /\ req[p].userID \in ReviewersOf(req[p].prID)

\* C7: two concurrent ReassignReviewer calls on one PR that both read the
\* same reviewer set, for different old reviewers, both past their write:
\* neither old reviewer is in the reviewer set and both new reviewers are in
\* it, as after running them one after the other.
C7_NoLostUpdate ==
    \A p, q \in Procs :
        (/\ p # q
         /\ req[p].op = "ReassignReviewer" /\ req[q].op = "ReassignReviewer"
         /\ req[p].pc \in {"ReassignReviewer_return", "done"} /\ req[p].err = ""
         /\ req[q].pc \in {"ReassignReviewer_return", "done"} /\ req[q].err = ""
         /\ req[p].prID = req[q].prID
         /\ req[p].pr.reviewers = req[q].pr.reviewers
         /\ req[p].userID # req[q].userID) =>
            /\ req[p].userID \notin ReviewersOf(req[p].prID)
            /\ req[q].userID \notin ReviewersOf(req[p].prID)
            /\ req[p].newReviewer \in ReviewersOf(req[p].prID)
            /\ req[q].newReviewer \in ReviewersOf(req[p].prID)

\* C8: a successful ReassignReviewer returns a new id other than the old one;
\* in the resulting set the old id is absent, the new id present, every other
\* previous reviewer still present, and the size is what it was.
C8_ReassignSwapsOne ==
    \A p \in Procs :
        (Responding(p, "ReassignReviewer") /\ req[p].err = "") =>
            /\ req[p].newReviewer # req[p].userID
            /\ req[p].userID \notin req[p].ret.reviewers
            /\ req[p].newReviewer \in req[p].ret.reviewers
            /\ (req[p].pr.reviewers \ {req[p].userID}) \subseteq req[p].ret.reviewers
            /\ Cardinality(req[p].ret.reviewers) = Cardinality(req[p].pr.reviewers)
            /\ ReviewersOf(req[p].prID) = req[p].ret.reviewers

\* C8 happens: one of two reviewers has been swapped
C8_Witness ==
    \E p \in Procs :
        /\ Responding(p, "ReassignReviewer") /\ req[p].err = ""
        /\ Cardinality(req[p].pr.reviewers) = 2
        /\ req[p].userID \in req[p].pr.reviewers
        /\ req[p].newReviewer \in req[p].ret.reviewers

\* C9: ReassignReviewer never selects the PR's author as the replacement.
C9_ReplacementNotAuthor ==
    \A p \in Procs :
        (Responding(p, "ReassignReviewer") /\ req[p].err = "") =>
            req[p].newReviewer # req[p].pr.author

\* C10: the replacement chosen by a successful ReassignReviewer is an active
\* member of the old reviewer's team that was not a reviewer of the PR before.
C10_ReplacementFromPool ==
    \A p \in Procs :
        (Responding(p, "ReassignReviewer") /\ req[p].err = "") =>
            /\ req[p].newReviewer \in Users
            /\ users[req[p].newReviewer]
            /\ TeamOf[req[p].newReviewer] = TeamOf[req[p].userID]
            /\ req[p].newReviewer \notin req[p].pr.reviewers

\* C10 happens: a replacement was chosen while a teammate outside the PR was inactive
C10_Witness ==
    \E p \in Procs :
        /\ Responding(p, "ReassignReviewer") /\ req[p].err = ""
        /\ \E u \in Users :
              /\ TeamOf[u] = TeamOf[req[p].userID]
              /\ ~users[u]
              /\ u \notin req[p].pr.reviewers

\* the active members of the old reviewer's team that are outside the reviewer
\* set the request of goroutine p read
Pool(p) ==
    {u \in Users : TeamOf[u] = TeamOf[req[p].userID] /\ users[u]} \ req[p].pr.reviewers

\* C11: a ReassignReviewer on an OPEN PR for an assigned, known reviewer,
\* whose lookups the store has answered, fails with NoReplacementCandidate
\* exactly when the old reviewer's team has no active member outside the PR's
\* reviewer set, and then the stored reviewer set is what it was.
C11_NoCandidateIffPoolEmpty ==
    \A p \in Procs :
        (/\ Responding(p, "ReassignReviewer")
         /\ req[p].fault = ""
         /\ req[p].pr.status = "OPEN"
         /\ req[p].userID \in req[p].pr.reviewers
         /\ req[p].userID \in Users) =>
            /\ (req[p].err = "ErrNoCandidate") <=> (Pool(p) = {})
            /\ req[p].err = "ErrNoCandidate" =>
                   /\ ReviewersOf(req[p].prID) = req[p].pr.reviewers
                   /\ GetByID(req[p].prID) = req[p].pr

\* C11 happens: both reviewers of a PR are the only active members of the team
C11_Witness ==
    \E p \in Procs :
        /\ Responding(p, "ReassignReviewer") /\ req[p].err = "ErrNoCandidate"
        /\ Cardinality(req[p].pr.reviewers) = 2
        /\ req[p].userID \in req[p].pr.reviewers

\* goroutine p takes a step of ReassignReviewer
ReassignSteps(p) ==
    \/ \E prID \in PRIds, oldUserID \in UserIds : ReassignReviewer(p, prID, oldUserID)
    \/ \E prID \in PRIds, oldUserID \in UserIds, failed \in Lookups :
          ReassignReviewer_lookupFails(p, prID, oldUserID, failed)
    \/ ReassignReviewer_select(p)
    \/ ReassignReviewer_update(p)
    \/ ReassignReviewer_return(p)

\* C12: no step of a ReassignReviewer, failing or not, changes the status,
\* author, name, createdAt or mergedAt of any PR, the reviewers of another PR,
\* or any user's active flag.
C12_ReassignFrame ==
    [][\A p \in Procs :
          ReassignSteps(p) =>
              /\ UNCHANGED <<users, pull_requests>>
              /\ \A id \in PRIds \ {req'[p].prID} : ReviewersOf(id)' = ReviewersOf(id)]_vars

\* C12 happens: a reassignment has succeeded while another PR has reviewers
C12_Witness ==
    \E p \in Procs :
        /\ Responding(p, "ReassignReviewer") /\ req[p].err = ""
        /\ \E id \in PRIds \ {req[p].prID} : ReviewersOf(id) # {}

\* C13: a CreatePR with an id that is present, OPEN or MERGED, fails with
\* PRAlreadyExists and changes no table; a row once stored is never removed
\* and never replaced by a later creation (its name and createdAt stay).
C13_PRExistsRefused ==
    [][/\ \A p \in Procs, prID \in PRIds, name \in PRNames, authorID \in AuthorIds :
             (CreatePR(p, prID, name, authorID) /\ pull_requests[prID] # NoRow) =>
                 /\ req'[p].pc = "done"
                 /\ req'[p].err = "ErrPRExists"
                 /\ UNCHANGED <<users, pull_requests, pr_reviewers>>
       /\ \A prID \in PRIds :
             pull_requests[prID] # NoRow =>
                 /\ pull_requests'[prID] # NoRow
                 /\ pull_requests'[prID].name = pull_requests[prID].name
                 /\ pull_requests'[prID].createdAt = pull_requests[prID].createdAt]_vars

\* C13 happens: the id of a merged PR was sent again, under another title
C13_Witness ==
    \E p \in Procs :
        /\ Responding(p, "CreatePR") /\ req[p].err = "ErrPRExists"
        /\ pull_requests[req[p].prID].status = "MERGED"
        /\ pull_requests[req[p].prID].name # req[p].name

\* C14: a CreatePR whose author id resolves to no user, for an id not yet
\* present, fails with AuthorNotFound; no PR row and no reviewer row appears.
C14_AuthorNotFound ==
    [][\A p \in Procs, prID \in PRIds, name \in PRNames :
          (CreatePR(p, prID, name, NoUser) /\ pull_requests[prID] = NoRow) =>
              /\ req'[p].pc = "done"
              /\ req'[p].err = "ErrAuthorNotFound"
              /\ pull_requests'[prID] = NoRow
              /\ ReviewersOf(prID)' = {}
              /\ UNCHANGED <<users, pull_requests, pr_reviewers>>]_vars

\* C14 happens: refused for the unknown author while the id is still free
C14_Witness ==
    \E p \in Procs :
        /\ Responding(p, "CreatePR") /\ req[p].err = "ErrAuthorNotFound"
        /\ req[p].userID = NoUser
        /\ pull_requests[req[p].prID] = NoRow

\* goroutine p is inside Create's transaction, its pull_requests row inserted
InCreateTx(p) ==
    req[p].op = "CreatePR" /\ req[p].pc \in {"CreatePR_reviewers", "CreatePR_commit"}

\* C15: the PR row and its reviewer rows become readable in one step, the one
\* that answers the caller, and are then exactly what the caller is given; a
\* Create that fails leaves no row of its own behind.
C15_CreateAtomic ==
    [][/\ \A prID \in PRIds :
             (pull_requests[prID] = NoRow /\ pull_requests'[prID] # NoRow) =>
                 \E p \in Procs :
                     /\ req[p].op = "CreatePR" /\ req[p].prID = prID
                     /\ req'[p].pc = "done" /\ req'[p].err = ""
                     /\ GetByID(prID)' = req'[p].ret
       /\ \A prID \in PRIds :
             pull_requests'[prID] = NoRow => ReviewersOf(prID)' = {}
       /\ \A p \in Procs :
             (/\ req[p].op = "CreatePR"
              /\ req[p].pc \in {"CreatePR_create", "CreatePR_reviewers", "CreatePR_commit"}
              /\ req'[p].pc = "done" /\ req'[p].err # "") =>
                 /\ UNCHANGED <<pull_requests, pr_reviewers>>
                 /\ InCreateTx(p) =>
                        /\ pull_requests'[req[p].prID] = NoRow
                        /\ ReviewersOf(req[p].prID)' = {}]_vars

\* C15 happens: while a Create has inserted the PR and a reviewer and has not
\* committed, a concurrent reader of that id finds no PR
C15_Witness ==
    \E p, q \in Procs :
        /\ InCreateTx(p) /\ req[p].inserted # {}
        /\ Responding(q, "MergePR") /\ req[q].err = "ErrPRNotFound"
        /\ req[q].prID = req[p].prID

\* C16: in every reachable state a PR has mergedAt set if and only if its
\* status is MERGED.
C16_MergedAtIffMerged ==
    \A prID \in PRIds :
        pull_requests[prID] # NoRow =>
            (pull_requests[prID].mergedAt # 0 <=> pull_requests[prID].status = "MERGED")

\* C16 happens: a merged PR with its stamp next to an open PR without one
C16_Witness ==
    \E a, b \in PRIds :
        /\ pull_requests[a].status = "MERGED" /\ pull_requests[a].mergedAt # 0
        /\ pull_requests[b].status = "OPEN" /\ pull_requests[b].mergedAt = 0

\* C17: a PR is created OPEN, an OPEN PR stays OPEN or becomes MERGED, a
\* MERGED PR stays MERGED; a MergePR of an id that is not present fails with
\* PRNotFound and creates nothing.
C17_StatusMonotone ==
    [][/\ \A prID \in PRIds :
             /\ pull_requests[prID].status = "ABSENT" =>
                    pull_requests'[prID].status \in {"ABSENT", "OPEN"}
             /\ pull_requests[prID].status = "OPEN" =>
                    pull_requests'[prID].status \in {"OPEN", "MERGED"}
             /\ pull_requests[prID].status = "MERGED" =>
                    pull_requests'[prID].status = "MERGED"
       /\ \A p \in Procs, prID \in PRIds :
             (MergePR(p, prID) /\ pull_requests[prID] = NoRow) =>
                 /\ req'[p].pc = "done"
                 /\ req'[p].err = "ErrPRNotFound"
                 /\ UNCHANGED <<users, pull_requests, pr_reviewers, clock>>]_vars

\* C17 happens: a merge of an absent id was refused while another PR is merged
C17_Witness ==
    \E p \in Procs :
        /\ Responding(p, "MergePR") /\ req[p].err = "ErrPRNotFound"
        /\ pull_requests[req[p].prID] = NoRow
        /\ \E prID \in PRIds : pull_requests[prID].status = "MERGED"

\* C18: after a successful DeactivateTeamMembers(T, S) run without concurrent
\* requests, no OPEN PR has a member of S among its reviewers, and none has a
\* member of S as author unless T has no active member outside S.
C18_CascadeRehomes ==
    \A p \in Procs :
        (Responding(p, "DeactivateTeamMembers") /\ req[p].err = "") =>
            \A prID \in PRIds :
                pull_requests[prID].status = "OPEN" =>
                    /\ ReviewersOf(prID) \cap req[p].userIDs = {}
                    /\ pull_requests[prID].author \in req[p].userIDs =>
                           {u \in Users : TeamOf[u] = req[p].teamName /\ users[u]}
                               \ req[p].userIDs = {}

\* C18 happens: the cascade found open PRs the listed users author and review,
\* and active members to take them
C18_Witness ==
    \E p \in Procs :
        /\ Responding(p, "DeactivateTeamMembers") /\ req[p].err = ""
        /\ req[p].authorPRs # {}
        /\ req[p].reviewerPRs # {}
        /\ req[p].activeMembers # {}

\* C19: the step that completes a successful DeactivateTeamMembers(T, S) leaves
\* every user of S inactive and every other user's flag as it was.
C19_CascadeDeactivates ==
    [][\A p \in Procs :
          (/\ req'[p].op = "DeactivateTeamMembers"
           /\ req[p].pc # "done" /\ req'[p].pc = "done" /\ req'[p].err = "") =>
              users' = [u \in Users |-> IF u \in req'[p].userIDs THEN FALSE ELSE users[u]]]_vars

\* C19 happens: two users were deactivated, a teammate of theirs is still
\* active and a user outside the list was inactive before
C19_Witness ==
    \E p \in Procs :
        /\ Responding(p, "DeactivateTeamMembers") /\ req[p].err = ""
        /\ Cardinality(req[p].userIDs) = 2
        /\ \A u \in req[p].userIDs : ~users[u]
        /\ \E u \in Users \ req[p].userIDs : TeamOf[u] = req[p].teamName /\ users[u]
        /\ \E u \in Users \ req[p].userIDs : ~users[u]

\* C20: a DeactivateTeamMembers that ends with an error leaves every PR's
\* author, every reviewer assignment and every user's flag as they were.
C20_CascadeAllOrNothing ==
    [][\A p \in Procs :
          (/\ req'[p].op = "DeactivateTeamMembers"
           /\ req[p].pc # "done" /\ req'[p].pc = "done" /\ req'[p].err # "") =>
              UNCHANGED <<users, pull_requests, pr_reviewers>>]_vars

\* C20 happens: the cascade failed with authors and reviewers to re-home
C20_Witness ==
    \E p \in Procs :
        /\ Responding(p, "DeactivateTeamMembers") /\ req[p].err = "StorageError"
        /\ req[p].authorPRs # {}
        /\ req[p].reviewerPRs # {}
        /\ req[p].activeMembers # {}

\* C21: a DeactivateTeamMembers with a non-empty list fails with TeamNotFound
\* when the team is unknown, else with UserNotFound when a listed id is not a
\* known user, else with UserNotInTeam (ErrInvalidTeamMember) when a listed
\* user is of another team; the failure is decided in the first step and no
\* user flag, PR author or reviewer set changes.
C21_CascadeValidates ==
    [][\A p \in Procs, teamName \in TeamNames, userIDs \in Batches \ {{}} :
          DeactivateTeamMembers(p, teamName, userIDs) =>
              /\ teamName \notin Teams => req'[p].err = "ErrTeamNotFound"
              /\ (teamName \in Teams /\ ~(userIDs \subseteq Users)) =>
                     req'[p].err = "ErrUserNotFound"
              /\ (/\ teamName \in Teams /\ userIDs \subseteq Users
                  /\ \E u \in userIDs : TeamOf[u] # teamName) =>
                     req'[p].err = "ErrInvalidTeamMember"
              /\ req'[p].err # "" => req'[p].pc = "done"
              /\ UNCHANGED <<users, pull_requests, pr_reviewers>>]_vars

\* C21 happens: a member of another team was listed and is still active
C21_Witness ==
    \E p \in Procs :
        /\ Responding(p, "DeactivateTeamMembers") /\ req[p].err = "ErrInvalidTeamMember"
        /\ \E u \in req[p].userIDs : users[u] /\ TeamOf[u] # req[p].teamName

\* C27: a DeactivateTeamMembers with an empty list for a known team answers at
\* once with success, an empty list of deactivated ids and a count of 0, and
\* changes no user, PR author or reviewer set.
C27_EmptyListNoOp ==
    [][\A p \in Procs, teamName \in Teams :
          DeactivateTeamMembers(p, teamName, {}) =>
              /\ req'[p].pc = "done"
              /\ req'[p].err = ""
              /\ req'[p].userIDs = {}
              /\ req'[p].count = 0
              /\ UNCHANGED <<users, pull_requests, pr_reviewers>>]_vars

\* C27 happens: the empty list was accepted for a team that has an open PR
\* with reviewers
C27_Witness ==
    \E p \in Procs :
        /\ Responding(p, "DeactivateTeamMembers") /\ req[p].err = ""
        /\ req[p].userIDs = {}
        /\ req[p].teamName \in Teams
        /\ \E prID \in PRIds :
              /\ pull_requests[prID].status = "OPEN"
              /\ TeamOf[pull_requests[prID].author] = req[p].teamName
              /\ ReviewersOf(prID) # {}

\* the step that completes a successful DeactivateTeamMembers of goroutine p
CascadeCommits(p) ==
    /\ req'[p].op = "DeactivateTeamMembers"
    /\ req[p].pc # "done" /\ req'[p].pc = "done" /\ req'[p].err = ""

\* the reassignments of kind `kind` in the log of goroutine p's cascade
Logged(p, kind) == {k \in 1..Len(req[p].log) : req[p].log[k].kind = kind}

\* C22: a successful cascade leaves an OPEN PR it removed a reviewer from with
\* fewer than 2 reviewers only when remainingActive has no user that is
\* neither a reviewer of the PR nor its author.
C22_ReplacementWheneverEligible ==
    [][\A p \in Procs :
          CascadeCommits(p) =>
              \A e \in req[p].reviewerPRs :
                  LET after == {u \in Users : <<e[2], u>> \in Rows(pr_reviewers')}
                  IN  Cardinality(after) < 2 =>
                          \A u \in req[p].activeMembers :
                              u \in after \/ u = pull_requests'[e[2]].author]_vars

\* C23: a replacement reviewer the cascade adds to a PR is not the PR's author
\* at that moment (the author the cascade has just assigned included) and is
\* not already a reviewer of the PR; a new author the cascade assigns is not
\* a reviewer of the PR.
C23_ReplacementNotAuthorNorReviewer ==
    \A p \in Procs :
        (Responding(p, "DeactivateTeamMembers") /\ req[p].err = "") =>
            /\ \A k \in Logged(p, "reviewer") :
                  /\ req[p].log[k].user # req[p].log[k].author
                  /\ req[p].log[k].user \notin req[p].log[k].assigned
            /\ \A k \in Logged(p, "author") :
                  req[p].log[k].user \notin req[p].log[k].assigned

\* C24: every new author and every replacement reviewer a successful
\* DeactivateTeamMembers(T, S) chooses is a user of team T, active when the
\* cascade ran, and not in S.
C24_ChosenFromRemainingActive ==
    [][\A p \in Procs :
          CascadeCommits(p) =>
              \A k \in 1..Len(req'[p].log) :
                  /\ TeamOf[req'[p].log[k].user] = req'[p].teamName
                  /\ users[req'[p].log[k].user]
                  /\ req'[p].log[k].user \notin req'[p].userIDs]_vars

\* C24 happens: the cascade chose a new author and a replacement reviewer
\* while a listed user was still active
C24_Witness ==
    \E p \in Procs :
        /\ Responding(p, "DeactivateTeamMembers") /\ req[p].err = ""
        /\ Logged(p, "author") # {}
        /\ Logged(p, "reviewer") # {}
        /\ Cardinality(req[p].userIDs) = 2

\* the number of reassignments in goroutine p's cascade given to user u
Load(p, u) == Cardinality({k \in 1..Len(req[p].log) : req[p].log[k].user = u})

\* C25: in one cascade with a remainingActive pool of n > 0 users, the k-th
\* reassignment (k from 0, authors and reviewers counted together) goes to
\* position k mod n of one ordering of the pool, the returned count is the
\* number of reassignments, and the loads of two pool members differ by at
\* most 1.
C25_SharedRoundRobin ==
    \A p \in Procs :
        (/\ Responding(p, "DeactivateTeamMembers") /\ req[p].err = ""
         /\ req[p].activeMembers # {}) =>
            /\ req[p].count = Len(req[p].log)
            /\ \E o \in Orderings(req[p].activeMembers) :
                  \A k \in 1..Len(req[p].log) :
                      req[p].log[k].user = o[((k - 1) % Len(o)) + 1]
            /\ \A a, b \in req[p].activeMembers : Load(p, a) - Load(p, b) <= 1

\* C25 happens: the cursor went round a pool of two users, over
\* reassignments of both kinds
C25_Witness ==
    \E p \in Procs :
        /\ Responding(p, "DeactivateTeamMembers") /\ req[p].err = ""
        /\ Cardinality(req[p].activeMembers) = 2
        /\ Len(req[p].log) > 2
        /\ Logged(p, "author") # {}
        /\ Logged(p, "reviewer") # {}

\* C26: the count a successful DeactivateTeamMembers returns is the number of
\* PRs whose author it changed plus the number of reviewer rows it added, and
\* the deactivated list it returns is the list it was given.
C26_CountIsWhatChanged ==
    [][\A p \in Procs, teamName \in TeamNames, userIDs \in Batches :
          (/\ CascadeCommits(p)
           /\ \/ DeactivateTeamMembers(p, teamName, userIDs)
              \/ (Deactivate_commit(p) /\ req[p].userIDs = userIDs)) =>
              /\ req'[p].userIDs = userIDs
              /\ req'[p].count =
                   Cardinality({id \in PRIds :
                                   pull_requests'[id].author # pull_requests[id].author})
                   + Cardinality(Rows(pr_reviewers') \ Rows(pr_reviewers))]_vars

\* C28: no step of a DeactivateTeamMembers changes the author or the reviewer
\* set of a PR that is MERGED.
C28_CascadeSparesMerged ==
    [][\A p \in Procs :
          req'[p].op = "DeactivateTeamMembers" =>
              \A prID \in PRIds :
                  pull_requests[prID].status = "MERGED" =>
                      /\ pull_requests'[prID] = pull_requests[prID]
                      /\ \A u \in Users :
                            pr_reviewers'[<<prID, u>>] = pr_reviewers[<<prID, u>>]]_vars

\* C28 happens: the cascade deactivated the author and a reviewer of a MERGED
\* PR while an active teammate was there to take them
C28_Witness ==
    \E p \in Procs :
        /\ Responding(p, "DeactivateTeamMembers") /\ req[p].err = ""
        /\ req[p].activeMembers # {}
        /\ \E prID \in PRIds :
              /\ pull_requests[prID].status = "MERGED"
              /\ pull_requests[prID].author \in req[p].userIDs
              /\ ReviewersOf(prID) \cap req[p].userIDs # {}

\* C29: no step adds a reviewer row for a user whose active flag is false.
C29_InactiveNeverAdded ==
    [][\A prID \in PRIds, u \in Users :
          (<<prID, u>> \in Rows(pr_reviewers') /\ <<prID, u>> \notin Rows(pr_reviewers)) =>
              users[u] /\ users'[u]]_vars

\* C29 happens: a PR was created with one reviewer only, two teammates of the
\* author being inactive
C29_Witness ==
    \E p \in Procs :
        /\ Responding(p, "CreatePR") /\ req[p].err = ""
        /\ Cardinality(ReviewersOf(req[p].prID)) = 1
        /\ Cardinality({u \in Users : /\ TeamOf[u] = TeamOf[req[p].userID]
                                       /\ u # req[p].userID /\ ~users[u]}) = 2

\* C30: a CreatePR, MergePR or ReassignReviewer in which a lookup fails in the
\* store ends there, with the store's failure as its error and not with a
\* domain error or as if the PR were absent.
C30_StorageFailureReturned ==
    \A p \in Procs :
        req[p].fault # "" => (req[p].pc = "done" /\ req[p].err = "StorageError")

\* C38: a DeactivateTeamMembers that names an unknown team fails with
\* TeamNotFound, whatever the id list, the empty list included.
C38_UnknownTeamRefused ==
    [][\A p \in Procs, userIDs \in Batches :
          DeactivateTeamMembers(p, NoTeam, userIDs) =>
              (req'[p].pc = "done" /\ req'[p].err = "ErrTeamNotFound")]_vars

\* C32: a ReassignReviewer whose lookups the store answers reports the first
\* failure of PRNotFound, PRMerged, ReviewerNotAssigned, UserNotFound,
\* NoReplacementCandidate that applies; an unassigned old reviewer that is an
\* unknown user gets ReviewerNotAssigned; a step that ends in one of these
\* failures changes no table.
C32_ReassignErrorOrder ==
    [][\A p \in Procs :
          /\ \A prID \in PRIds, oldUserID \in UserIds :
                ReassignReviewer(p, prID, oldUserID) =>
                    LET pr == GetByID(prID)
                    IN  /\ pr = NoPR => req'[p].err = "ErrPRNotFound"
                        /\ (pr # NoPR /\ pr.status = "MERGED") => req'[p].err = "ErrPRMerged"
                        /\ (pr # NoPR /\ pr.status = "OPEN" /\ oldUserID \notin pr.reviewers) =>
                               req'[p].err = "ErrNotAssigned"
                        /\ (/\ pr # NoPR /\ pr.status = "OPEN"
                            /\ oldUserID \in pr.reviewers /\ oldUserID \notin Users) =>
                               req'[p].err = "ErrUserNotFound"
                        /\ (/\ pr # NoPR /\ pr.status = "OPEN"
                            /\ oldUserID \in pr.reviewers /\ oldUserID \in Users) =>
                               req'[p].err = ""
          /\ (ReassignReviewer_select(p) /\ req'[p].err # "") =>
                /\ req'[p].err = "ErrNoCandidate"
                /\ req[p].pr.status = "OPEN"
                /\ req[p].userID \in req[p].pr.reviewers \cap Users
          /\ (ReassignSteps(p) /\ req'[p].err # "") =>
                UNCHANGED <<users, pull_requests, pr_reviewers>>]_vars

\* C32 happens: the old reviewer named for an OPEN PR with reviewers is an
\* unknown user, and the answer is ReviewerNotAssigned
C32_Witness ==
    \E p \in Procs :
        /\ Responding(p, "ReassignReviewer") /\ req[p].err = "ErrNotAssigned"
        /\ req[p].userID \notin Users
        /\ req[p].pr.status = "OPEN"
        /\ req[p].pr.reviewers # {}

\* C31: in every reachable state the pr_reviewers table holds at most one row
\* for each (PR, reviewer) pair.
C31_NoDuplicateReviewer ==
    \A x \in PRIds \X Users : pr_reviewers[x] <= 1

\* C31 happens: a cascade has called AddReviewer twice for the same PR and the
\* same user
C31_Witness ==
    \E p \in Procs :
        /\ Responding(p, "DeactivateTeamMembers") /\ req[p].err = ""
        /\ \E j, k \in Logged(p, "reviewer") :
              /\ j # k
              /\ req[p].log[j].prID = req[p].log[k].prID
              /\ req[p].log[j].user = req[p].log[k].user
              /\ pr_reviewers[<<req[p].log[k].prID, req[p].log[k].user>>] = 1

\* C33: in every reachable state, whatever the interleaving of the requests,
\* every PR has at most 2 reviewers.
C33_AtMostTwoReviewers ==
    \A prID \in PRIds : Cardinality(ReviewersOf(prID)) <= 2

\* C34: when a cascade has deactivated a reviewer of a PR and removed its row
\* after a ReassignReviewer on that PR read the reviewer set, the
\* reassignment's write does not bring the deactivated reviewer back.
C34_ReassignKeepsCascadeRemoval ==
    [][\A p \in Procs :
          ReassignReviewer_update(p) =>
              \A d \in req[p].pr.reviewers \ {req[p].userID} :
                  (~users[d] /\ d \notin ReviewersOf(req[p].prID)) =>
                      <<req[p].prID, d>> \notin Rows(pr_reviewers')]_vars

\* C35: with cascades as the only requests that deactivate users, every new
\* author and every replacement reviewer a cascade has chosen is an active
\* user when that cascade commits: no other cascade that ran meanwhile has
\* deactivated it.
C35_CascadeChoiceStillActive ==
    [][\A p \in Procs :
          (CascadeCommits(p) /\ Deactivate_commit(p)) =>
              \A k \in 1..Len(req'[p].log) : users'[req'[p].log[k].user]]_vars

\* C36: with cascades as the only requests that deactivate users, a CreatePR
\* that commits stores no reviewer that is inactive: no cascade that ran
\* while the PR was being created has deactivated one of its reviewers.
C36_CreatedReviewersStillActive ==
    [][\A p \in Procs :
          (CreatePR_commit(p) /\ req'[p].err = "") =>
              \A u \in Users :
                  <<req[p].prID, u>> \in Rows(pr_reviewers') => users'[u]]_vars

\* C37: of the CreatePR calls that run concurrently with one id, the one that
\* commits stores exactly the reviewer set it returns, and a call whose INSERT
\* meets the row another call has committed ends with PRAlreadyExists.
C37_ConcurrentCreateOneWins ==
    [][\A p \in Procs :
          /\ (CreatePR_commit(p) /\ req'[p].err = "") =>
                /\ pull_requests[req[p].prID] = NoRow
                /\ {u \in Users : <<req[p].prID, u>> \in Rows(pr_reviewers')}
                       = req'[p].ret.reviewers
          /\ (CreatePR_create(p) /\ pull_requests[req[p].prID] # NoRow) =>
                req'[p].err = "ErrPRExists"]_vars

====
